---- MODULE Spec2Model ----
(***************************************************************************)
(* YachtDice: the roll coordinator (DiceContainer) and the five physics     *)
(* dice (PhysicsDice) as a timed state machine.                             *)
(*                                                                          *)
(* Time is in milliseconds.  Every setTimeout/setInterval of the code is a  *)
(* record of the set `timers`; the clock `now` jumps from one due time to   *)
(* the next.  Positions are one coordinate in units of 1e-5 length units,   *)
(* velocities are magnitudes in units of 1e-5, damping coefficients are in  *)
(* tenths, quaternions are in halves (the Hurwitz units).                   *)
(***************************************************************************)
EXTENDS Integers, Sequences, FiniteSets, TLC

\* ----------------------------------------------------------------- constants
diceCount == 5
Bodies == 0 .. (diceCount - 1)

StartDelay == 100
DampingStartDelay == 1500
RampPeriod == 100
CheckPeriod == 100
\* A forced timeout shorter than the delay of the damping start.
ForcedTimeoutShort == DampingStartDelay - 500
ForcedTimeout == 3000
\* A completion delay as long as the delay of the damping start.
CompletionDelayLong == DampingStartDelay
CompletionDelay == 100
\* A rolling timeout no longer than the forced timeout.
RollingTimeoutShort == ForcedTimeout
RollingTimeout == 4000

\* The delays of the variant whose PhysicsDice reports settled through a
\* timer and whose DiceContainer triggers the Points component.
ForcedTimeoutDelayed == 4000
NotifyDelay == 50
TriggerDelay == 200
RollingTimeoutDelayed == 4500

DampingStart == 5
DampingStep == 5
DampingMax == 200

HistoryCap == 10
Window == 5
PosEps == 10
VelEps == 500

\* ------------------------------------------------------------------- bounds
\* Rolls accepted in one behaviour.
MaxRolls == 2
\* A body may come to rest only within its first MaxRestCheck samples of a
\* roll (or not at all: it then jitters until the forced timeout).
MaxRestCheck == 1
\* Bodies whose final orientation is one of two.
MaxTumbling == 1
\* Stalls of the event loop in one behaviour of LateSpec.
MaxStalls == 1
\* Settled notifications the harness of CoordSpec delivers in one session.
MaxDeliveries == 5
\* Quaternion components the harness of ResolveSpec draws, in halves.
QuatMax == 2
\* Scale factors the harness of ResolveSpec applies to a quaternion.
MaxScale == 2
\* Calls of checkStability the harness of DetectSpec makes.
MaxObserve == 5
\* Calls of checkStability the harness of WindowSpec makes.
MaxWindowObserve == 12

\* --------------------------------------------------------------- environment
\* Displacement of a moving body between two samples (0.01 length units).
MoveStep == 100 * PosEps
\* Velocity magnitude of a moving body.
MoveVel == 2 * VelEps

\* The rotations the physics can leave a body in, as quaternions in halves:
\* Orientation[v] turns the local axis of face value v to world-up.
Quat(x, y, z, w) == [x |-> x, y |-> y, z |-> z, w |-> w]
Orientation ==
  << Quat(-1, 1, 1, 1), Quat(1, 1, 1, 1), Quat(0, 0, 0, 2),
     Quat(1, 1, -1, 1), Quat(1, -1, -1, 1), Quat(2, 0, 0, 0) >>
ExampleValues == << 3, 5, 1, 6, 2 >>
\* The orientations a roll can leave body i in: the first MaxTumbling bodies
\* have two, the others one.
RotationChoices(i) ==
  { Orientation[ExampleValues[i + 1]] } \cup
  ( IF i < MaxTumbling THEN { Orientation[i + 1] } ELSE {} )

VARIABLES
  \* event loop
  now,              \* the clock, ms
  timers,           \* live setTimeout/setInterval entries
  renderPending,    \* a state update of DiceContainer waits for its re-render
  \* DiceContainer
  resetCount, isRolling, stableDiceCount, hasCalculatedPoints,
  diceValues, totalPoints,
  \* PhysicsDice, one per body
  lastResetCount, isLocked, currentDamping, finalValue, positionHistory,
  isResetting,
  \* the rigid body behind diceRef.current
  bodyType, pos, moving, linvel, angvel, rotation,
  \* history variables of the verification
  acceptTime,       \* the time the current roll was accepted
  completions,      \* completion callbacks run in the current session
  pubGen,           \* the roll whose completion callback ran last
  lockCount,        \* freezes of a body in its current roll
  notified,         \* settled notifications of a body in its current roll
  lockedBy,         \* "none", "detector" or "timeout"
  checks,           \* samples taken by checkStability in the current roll
  lastTrigger,      \* outcome of the last call of handleReset
  stalls,           \* stalls of the event loop so far
  damped,           \* the damping-start callback of a body has run in its roll
  fault,            \* the handle fault that has hit a body in its roll
  \* the DiceContainer that is mounted, and the Points component it renders
  container,        \* "values" (totals from stored values) or "points"
  updateTrigger,    \* updatePointsTrigger of the container that renders Points
  pointsSeen        \* the dependencies the effects of Points last ran with

loopVars == << now, timers, renderPending >>
coordVars == << resetCount, isRolling, stableDiceCount, hasCalculatedPoints,
                diceValues, totalPoints >>
diceVars == << lastResetCount, isLocked, currentDamping, finalValue,
               positionHistory, isResetting >>
rigidVars == << bodyType, pos, moving, linvel, angvel, rotation >>
histVars == << acceptTime, completions, pubGen, lockCount, notified, lockedBy,
               checks, lastTrigger, stalls, damped, fault >>
pointsVars == << container, updateTrigger, pointsSeen >>
vars == << loopVars, coordVars, diceVars, rigidVars, histVars, pointsVars >>

\* ------------------------------------------------------------ pure helpers
SetMin(S) == CHOOSE m \in S : \A x \in S : m <= x

Abs(a) == IF a < 0 THEN 0 - a ELSE a

\* THREE.Vector3.distanceTo on the modelled coordinate.
distanceTo(p, q) == Abs(p - q)

\* The rotated normal's dot product with worldUp = (0,1,0), doubled, for a
\* quaternion q in halves and a local normal n: THREE's applyQuaternion
\* (t = 2 q x n; n + w t + q x t), y component.
Alignment(q, n) ==
  LET tx == q.y * n[3] - q.z * n[2]
      ty == q.z * n[1] - q.x * n[3]
      tz == q.x * n[2] - q.y * n[1]
  IN  2 * n[2] + q.w * ty + q.z * tx - q.x * tz

\* A faulty table with every value on the opposite face.
facesOpposite ==
  << [normal |-> << 0, 0, 1 >>, value |-> 4],
     [normal |-> << 1, 0, 0 >>, value |-> 5],
     [normal |-> << 0, 1, 0 >>, value |-> 6],
     [normal |-> << 0, 0, -1 >>, value |-> 1],
     [normal |-> << -1, 0, 0 >>, value |-> 2],
     [normal |-> << 0, -1, 0 >>, value |-> 3] >>

faces ==
  << [normal |-> << 0, 0, 1 >>, value |-> 1],
     [normal |-> << 1, 0, 0 >>, value |-> 2],
     [normal |-> << 0, 1, 0 >>, value |-> 3],
     [normal |-> << 0, 0, -1 >>, value |-> 4],
     [normal |-> << -1, 0, 0 >>, value |-> 5],
     [normal |-> << 0, -1, 0 >>, value |-> 6] >>

\* A comparison that lets a tie replace the current best.
BeatsOrTies(alignment, max) == alignment >= max

\* if (alignment > maxAlignment)
Beats(alignment, max) == alignment > max

\* faces.forEach with maxAlignment = -Infinity, upFaceValue = 1: the state
\* after the first k faces.
RECURSIVE UpFaceAfter(_, _)
UpFaceAfter(q, k) ==
  IF k = 0 THEN [set |-> FALSE, max |-> 0, value |-> 1]
  ELSE LET prev == UpFaceAfter(q, k - 1)
           alignment == Alignment(q, faces[k].normal)
       IN  IF ~prev.set \/ Beats(alignment, prev.max)
           THEN [set |-> TRUE, max |-> alignment, value |-> faces[k].value]
           ELSE prev

\* A faulty resolver that returns the best alignment instead of its face.
AlignmentOfUpFace(q) == UpFaceAfter(q, Len(faces)).max

getDiceValueFromRotation(q) == UpFaceAfter(q, Len(faces)).value

\* One entry of positionHistoryRef.
Sample(p, t) == [pos |-> p, time |-> t]

\* A push without the shift.
PushSampleNoShift(h, s) == Append(h, s)

\* positionHistoryRef after push and the shift that keeps 10 entries.
PushSample(h, s) ==
  LET pushed == Append(h, s)
  IN  IF Len(pushed) > HistoryCap THEN Tail(pushed) ELSE pushed

\* The length test that opens the stability test.
EnoughHistory(h) == Len(h) >= Window

\* Two faulty position tests: one wants the positions equal, one looks at
\* the last pair only.
PositionsEqual(h) ==
  \A k \in 1 .. (Window - 1) : h[Len(h) - k].pos = h[Len(h) - k + 1].pos
PositionsLastPair(h) ==
  distanceTo(h[Len(h) - 1].pos, h[Len(h)].pos) <= PosEps

\* The for loop over the 4 pairs of the 5 most recent positions.
PositionsStable(h) ==
  \A k \in 1 .. (Window - 1) :
    distanceTo(h[Len(h) - k].pos, h[Len(h) - k + 1].pos) <= PosEps

\* A faulty velocity test that ignores the angular velocity.
VelocitiesLinearOnly(lin, ang) == ~(lin > VelEps)

\* The velocity test.
VelocitiesStable(lin, ang) == ~(lin > VelEps \/ ang > VelEps)

\* isStable at the end of checkStability, for the history after the push.
IsStable(h, lin, ang) ==
  EnoughHistory(h) /\ PositionsStable(h) /\ VelocitiesStable(lin, ang)

\* diceValues is a JavaScript array: 0 stands for a hole, NaN for undefined
\* as an element and for NaN as a sum.
NaN == 0 - 1

\* [...prev]: the spread turns holes into undefined.
Spread(a) == [k \in 1 .. Len(a) |-> IF a[k] = 0 THEN NaN ELSE a[k]]

\* A faulty update that pushes the value instead of storing it at index.
PushValue(a, index, value) == Append(Spread(a), value)

\* A faulty update that puts the value in front, whatever the index.
PrependValue(a, index, value) == << value >> \o Spread(a)

\* newValues[index] = value on the spread copy.
SetValue(a, index, value) ==
  LET copy == Spread(a)
  IN  IF index + 1 <= Len(copy)
      THEN [copy EXCEPT ![index + 1] = value]
      ELSE copy \o [k \in 1 .. (index - Len(copy)) |-> 0] \o << value >>

\* prev.reduce((acc, val) => acc + val, 0): holes are skipped, undefined
\* makes the sum NaN.
RECURSIVE ReduceSum(_)
ReduceSum(a) ==
  IF a = << >> THEN 0
  ELSE LET rest == ReduceSum(Tail(a))
       IN  IF rest = NaN \/ Head(a) = NaN THEN NaN ELSE Head(a) + rest

\* diceValues.filter(v => v > 0): the breakdown the display joins.
RECURSIVE Breakdown(_)
Breakdown(a) ==
  IF a = << >> THEN << >>
  ELSE IF Head(a) > 0 THEN << Head(a) >> \o Breakdown(Tail(a))
       ELSE Breakdown(Tail(a))

\* A display that shows totalPoints whether rolling or not.
DisplayedRunning == ToString(totalPoints)

\* What the total line of the display shows.
DisplayedTotal == IF isRolling THEN "..." ELSE ToString(totalPoints)

\* The values of the breakdown line, << >> when the line is not rendered.
DisplayedBreakdown ==
  IF ~isRolling /\ Len(diceValues) > 0 THEN Breakdown(diceValues) ELSE << >>

\* ------------------------------------------------------------------ timers
\* A live timer: its kind, the body it belongs to (diceCount for the
\* coordinator's), its due time and the roll it was scheduled in.
Timer(kind, body, due, gen) ==
  [kind |-> kind, body |-> body, due |-> due, gen |-> gen]

\* The timers held in timerRef, stabilityTimerRef, gradualDampingRef and
\* stabilityCheckRef: the ones the effect and its cleanup clear.
RefKinds == { "spawn", "dampStart", "ramp", "check" }
IntervalKinds == { "ramp", "check" }

Due == { t \in timers : t.due <= now }

\* Timers run in the order they were started when their delays agree: the
\* bodies' effects and callbacks run in index order, and a body starts its
\* ramp interval before its check interval.  A timer also waits for the
\* timers started before it with a shorter delay: the spawn callback starts
\* the damping-start timer before the forced timeout.
Precedes(a, b) ==
  \/ a.kind = b.kind /\ a.body < b.body
  \/ a.kind = "dampStart" /\ b.kind = "forced" /\ a.body <= b.body
  \/ /\ a.kind \in IntervalKinds
     /\ b.kind \in IntervalKinds
     /\ \/ a.body < b.body
        \/ a.body = b.body /\ a.kind = "ramp" /\ b.kind = "check"

Ready(t) == t \in Due /\ ~\E a \in Due : Precedes(a, t)

\* setInterval: the entry stays, due one period later.
Rearm(t, period) == [t EXCEPT !.due = now + period]

\* -------------------------------------------------------------------- Init
\* After the first render: no roll yet, the dice parked, no timer.
\* The dependencies of the two effects of Points: [updateTrigger, diceRefs,
\* isRolling] of the computing effect and [resetCount] of the resetting one
\* (diceRefs is one ref object for the life of the container).
PointsDeps(trigger, rolling, count) ==
  [ trigger |-> trigger, rolling |-> rolling, count |-> count ]

InitWith(mountedContainer) ==
  /\ now = 0
  /\ timers = {}
  /\ renderPending = FALSE
  /\ resetCount = 0
  /\ isRolling = FALSE
  /\ stableDiceCount = 0
  /\ hasCalculatedPoints = FALSE
  /\ diceValues = << >>
  /\ totalPoints = 0
  /\ lastResetCount = [i \in Bodies |-> 0]
  /\ isLocked = [i \in Bodies |-> FALSE]
  /\ currentDamping = [i \in Bodies |-> DampingStart]
  /\ finalValue = [i \in Bodies |-> 1]
  /\ positionHistory = [i \in Bodies |-> << >>]
  /\ isResetting = [i \in Bodies |-> FALSE]
  /\ bodyType = [i \in Bodies |-> "dynamic"]
  /\ pos = [i \in Bodies |-> 0]
  /\ moving = [i \in Bodies |-> FALSE]
  /\ linvel = [i \in Bodies |-> 0]
  /\ angvel = [i \in Bodies |-> 0]
  /\ rotation = [i \in Bodies |-> Orientation[3]]
  /\ acceptTime = 0
  /\ completions = 0
  /\ pubGen = 0
  /\ lockCount = [i \in Bodies |-> 0]
  /\ notified = [i \in Bodies |-> 0]
  /\ lockedBy = [i \in Bodies |-> "none"]
  /\ checks = [i \in Bodies |-> 0]
  /\ lastTrigger = "none"
  /\ stalls = 0
  /\ damped = [i \in Bodies |-> FALSE]
  /\ fault = [i \in Bodies |-> "none"]
  /\ container = mountedContainer
  /\ updateTrigger = 0
  /\ pointsSeen = PointsDeps(0, FALSE, 0)

\* The DiceContainer that totals the values the dice hand over.
Init == InitWith("values")

\* ---------------------------------------------------------- DiceContainer
\* Two faulty tests, to be told apart from CompletionReady: one fires a
\* notification early, one never fires.
CompletionEarly(count, calculated) == count = diceCount - 1 /\ ~calculated
CompletionNever(count, calculated) == count > diceCount /\ ~calculated

\* The test that fires the completion: all dice counted, not yet calculated.
CompletionReady(count, calculated) == count = diceCount /\ ~calculated

\* handleDiceStable(index, value), with ts the timers the caller leaves.
handleDiceStable(index, value, ts) ==
  LET count == stableDiceCount + 1
      fire == CompletionReady(count, hasCalculatedPoints)
  IN  /\ stableDiceCount' = count
      /\ diceValues' = SetValue(diceValues, index, value)
      /\ hasCalculatedPoints' = (hasCalculatedPoints \/ fire)
      /\ timers' = ts \cup
           ( IF fire
             THEN { Timer("completion", diceCount, now + CompletionDelay,
                          resetCount) }
             ELSE {} )
      /\ renderPending' = TRUE

\* handleDiceStable() of the DiceContainer that renders Points: it counts the
\* notification, takes no value and sets no state.
handleDiceStableTrigger(ts) ==
  LET count == stableDiceCount + 1
      fire == CompletionReady(count, hasCalculatedPoints)
  IN  /\ stableDiceCount' = count
      /\ hasCalculatedPoints' = (hasCalculatedPoints \/ fire)
      /\ timers' = ts \cup
           ( IF fire
             THEN { Timer("trigger", diceCount, now + TriggerDelay,
                          resetCount) }
             ELSE {} )
      /\ UNCHANGED << diceValues, renderPending >>

\* The onStable prop of a PhysicsDice: the handleDiceStable of the container
\* that is mounted.
onStable(index, value, ts) ==
  IF container = "values"
  THEN handleDiceStable(index, value, ts)
  ELSE handleDiceStableTrigger(ts)

\* A faulty total that drops the first body's value.
TotalWithoutFirst(values) == ReduceSum(Tail(values))

\* The total the completion callback publishes.
TotalOf(values) == ReduceSum(values)

\* The setTimeout callback of handleDiceStable.
CompletionFire ==
  \E t \in timers :
    /\ t.kind = "completion" /\ Ready(t)
    /\ timers' = timers \ { t }
    /\ totalPoints' = TotalOf(diceValues)
    /\ renderPending' = (renderPending \/ totalPoints' # totalPoints)
    /\ completions' = completions + 1
    /\ pubGen' = t.gen
    /\ UNCHANGED << now, resetCount, isRolling, stableDiceCount,
                    hasCalculatedPoints, diceValues, diceVars, rigidVars,
                    acceptTime, lockCount, notified, lockedBy, checks,
                    lastTrigger, stalls, damped, fault,
                    pointsVars >>

\* A rolling timeout that leaves isRolling as it is.
RollingKept == isRolling

\* setIsRolling(false)
RollingAfterTimeout == FALSE

\* The setTimeout callback of handleReset.
RollingFire ==
  \E t \in timers :
    /\ t.kind = "rolling" /\ Ready(t)
    /\ timers' = timers \ { t }
    /\ isRolling' = RollingAfterTimeout
    /\ renderPending' = TRUE
    /\ UNCHANGED << now, resetCount, stableDiceCount, hasCalculatedPoints,
                    diceValues, totalPoints, diceVars, rigidVars, histVars,
                    pointsVars >>

\* A handleReset that forgets setStableDiceCount(0).
CountKept == stableDiceCount

\* stableDiceCount after an accepted handleReset.
CountAfterReset == 0

\* A handleReset that forgets hasCalculatedPointsRef.current = false.
CalculatedKept == hasCalculatedPoints

\* hasCalculatedPointsRef.current after an accepted handleReset.
CalculatedAfterReset == FALSE

\* A handleReset without its guard.
AlwaysTrigger == TRUE

\* The guard of handleReset.
CanTrigger == ~isRolling

\* An effect that forgets to reset positionHistoryRef.
HistoryKept(i) == positionHistory[i]

\* An effect that forgets to reset isLockedRef.
LockedFlagKept(i) == isLocked[i]

\* isLockedRef.current after the reset of the effect.
LockedFlagAfterReset(i) == FALSE

\* positionHistoryRef after the reset of the effect.
HistoryAfterReset(i) == << >>

\* handleReset and the render it causes.  With mounted, the PhysicsDice
\* children run their effect for the new resetCount: the cleanup of the
\* previous effect, then the reset and the spawn timer.
handleReset(mounted) ==
  IF CanTrigger
  THEN
    LET gen == resetCount + 1
        kept == { t \in timers :
                    /\ t.kind # "rolling"
                    /\ ~(mounted /\ t.kind \in RefKinds) }
        spawn == IF mounted
                 THEN { Timer("spawn", i, now + StartDelay, gen) : i \in Bodies }
                 ELSE {}
    IN  /\ resetCount < MaxRolls
        /\ stableDiceCount' = CountAfterReset
        /\ hasCalculatedPoints' = CalculatedAfterReset
        /\ diceValues' = << >>
        /\ totalPoints' = 0
        /\ isRolling' = TRUE
        /\ resetCount' = gen
        /\ timers' = kept \cup spawn
                      \cup { Timer("rolling", diceCount, now + RollingTimeout, gen) }
        /\ renderPending' = FALSE
        /\ IF mounted
           THEN /\ lastResetCount' = [i \in Bodies |-> gen]
                /\ positionHistory' = [i \in Bodies |-> HistoryAfterReset(i)]
                /\ isResetting' = [i \in Bodies |-> TRUE]
                /\ currentDamping' = [i \in Bodies |-> DampingStart]
                /\ isLocked' = [i \in Bodies |-> LockedFlagAfterReset(i)]
                /\ finalValue' = [i \in Bodies |-> 1]
           ELSE UNCHANGED diceVars
        /\ acceptTime' = now
        /\ completions' = 0
        /\ lockCount' = [i \in Bodies |-> 0]
        /\ notified' = [i \in Bodies |-> 0]
        /\ lockedBy' = [i \in Bodies |-> "none"]
        /\ checks' = [i \in Bodies |-> 0]
        /\ lastTrigger' = "accepted"
        /\ damped' = IF mounted THEN [i \in Bodies |-> FALSE] ELSE damped
        /\ fault' = IF mounted THEN [i \in Bodies |-> "none"] ELSE fault
        /\ UNCHANGED << now, rigidVars, pubGen, stalls,
                    pointsVars >>
  ELSE
    /\ lastTrigger' = "rejected"
    /\ UNCHANGED << loopVars, coordVars, diceVars, rigidVars, acceptTime,
                    completions, pubGen, lockCount, notified, lockedBy,
                    checks, stalls, damped, fault,
                    pointsVars >>

\* A click on the button, which is disabled while isRolling; the handler is
\* the one of the last render.
ButtonClick ==
  /\ ~renderPending
  /\ ~isRolling
  /\ handleReset(TRUE)

\* A re-render of DiceContainer after a state update made in a callback.
\* position is a new array on every render, so every PhysicsDice runs the
\* cleanup of its effect, which clears the four timers held in refs, and runs
\* the effect again, which does nothing for an unchanged resetCount.
Render ==
  /\ renderPending
  /\ renderPending' = FALSE
  /\ timers' = { t \in timers : t.kind \notin RefKinds }
  /\ UNCHANGED << now, coordVars, diceVars, rigidVars, histVars,
                    pointsVars >>

\* ------------------------------------------------------------ PhysicsDice
\* The guard of lockDicePhysics (diceRef.current is set while mounted).
CanLock(i) == ~isLocked[i]

\* A lockDicePhysics that forgets to set isLockedRef.
LockedFlagForgotten == FALSE

\* isLockedRef.current after lockDicePhysics has frozen the body.
LockedFlagAfterLock == TRUE

lockVars == << finalValue, rotation, bodyType, linvel, angvel, moving,
               isLocked, lockCount, lockedBy, notified, stableDiceCount,
               diceValues, hasCalculatedPoints, renderPending >>

\* The body of lockDicePhysics once the rotation has been read as q and
\* resolved to value.
lockBody(i, by, q, value, ts) ==
  /\ rotation' = [rotation EXCEPT ![i] = q]
  /\ finalValue' = [finalValue EXCEPT ![i] = value]
  /\ bodyType' = [bodyType EXCEPT ![i] = "fixed"]
  /\ linvel' = [linvel EXCEPT ![i] = 0]
  /\ angvel' = [angvel EXCEPT ![i] = 0]
  /\ moving' = [moving EXCEPT ![i] = FALSE]
  /\ isLocked' = [isLocked EXCEPT ![i] = LockedFlagAfterLock]
  /\ lockCount' = [lockCount EXCEPT ![i] = @ + 1]
  /\ lockedBy' = [lockedBy EXCEPT ![i] = by]
  /\ notified' = [notified EXCEPT ![i] = @ + 1]
  /\ onStable(i, value, ts)

\* lockDicePhysics for body i, called by `by`, the body being found in
\* rotation q; ts are the timers the caller leaves.
lockDicePhysics(i, by, q, ts) ==
  IF CanLock(i)
  THEN lockBody(i, by, q, getDiceValueFromRotation(q), ts)
  ELSE /\ timers' = ts
       /\ UNCHANGED lockVars

\* The callback of the spawn timer (timerRef).  The rotation it sets is random
\* and the physics turns the body from then on: the model parks the rotation
\* here and draws the one the body is found in when lockDicePhysics reads it.
SpawnFire(i) ==
  \E t \in timers :
    /\ t.kind = "spawn" /\ t.body = i /\ Ready(t)
    /\ bodyType' = [bodyType EXCEPT ![i] = "dynamic"]
    /\ pos' = [pos EXCEPT ![i] = 0]
    /\ linvel' = [linvel EXCEPT ![i] = 0]
    /\ angvel' = [angvel EXCEPT ![i] = 0]
    /\ moving' = [moving EXCEPT ![i] = TRUE]
    /\ rotation' = [rotation EXCEPT ![i] = Orientation[3]]
    /\ timers' = (timers \ { t }) \cup
         { Timer("dampStart", i, now + DampingStartDelay, t.gen),
           Timer("forced", i, now + ForcedTimeout, t.gen) }
    /\ UNCHANGED << now, renderPending, coordVars, diceVars, histVars,
                    pointsVars >>

\* The callback of the damping-start timer (stabilityTimerRef).
DampStartFire(i) ==
  \E t \in timers :
    /\ t.kind = "dampStart" /\ t.body = i /\ Ready(t)
    /\ timers' = (timers \ { t }) \cup
         { Timer("ramp", i, now + RampPeriod, t.gen),
           Timer("check", i, now + CheckPeriod, t.gen) }
    /\ damped' = [damped EXCEPT ![i] = TRUE]
    /\ UNCHANGED << now, renderPending, coordVars, diceVars, rigidVars,
                    acceptTime, completions, pubGen, lockCount, notified,
                    lockedBy, checks, lastTrigger, stalls, fault,
                    pointsVars >>

\* A ramp step that does not look at isLockedRef.
RampGuardNoLock(i) == currentDamping[i] < DampingMax

\* The guard of the ramp step.
RampGuard(i) == currentDamping[i] < DampingMax /\ ~isLocked[i]

\* A ramp that doubles the damping.
NextDampingDoubled(d) == d + d

\* currentDampingRef.current += 0.5
NextDamping(d) == d + DampingStep

\* The callback of the damping ramp interval (gradualDampingRef).
RampTick(i) ==
  \E t \in timers :
    /\ t.kind = "ramp" /\ t.body = i /\ Ready(t)
    /\ IF RampGuard(i)
       THEN LET d == NextDamping(currentDamping[i])
            IN  /\ currentDamping' = [currentDamping EXCEPT ![i] = d]
                /\ IF d >= DampingMax
                   THEN /\ timers' = timers \ { t }
                        /\ isResetting' = [isResetting EXCEPT ![i] = FALSE]
                   ELSE /\ timers' = (timers \ { t }) \cup { Rearm(t, RampPeriod) }
                        /\ UNCHANGED isResetting
       ELSE /\ timers' = (timers \ { t }) \cup { Rearm(t, RampPeriod) }
            /\ UNCHANGED << currentDamping, isResetting >>
    /\ UNCHANGED << now, renderPending, coordVars, lastResetCount, isLocked,
                    finalValue, positionHistory, rigidVars, histVars,
                    pointsVars >>

\* Whether the physics may bring a moving body to rest at this sample.
MayRest(i) == checks[i] < MaxRestCheck

\* A checkStability without its early return.
SkipsNever(i) == FALSE

\* The early return of checkStability (diceRef.current is set while mounted).
SkipsCheck(i) == isLocked[i]

\* checkStability for body i, which the physics has moved to p and left with
\* velocity magnitudes lin and ang (m: it is still moving); ts are the
\* timers the caller leaves.
checkStability(i, p, lin, ang, m, ts) ==
  IF SkipsCheck(i)
  THEN /\ timers' = ts
       /\ UNCHANGED << lockVars, pos, positionHistory, checks >>
  ELSE LET h == PushSample(positionHistory[i], Sample(p, now))
       IN  /\ pos' = [pos EXCEPT ![i] = p]
           /\ positionHistory' = [positionHistory EXCEPT ![i] = h]
           /\ checks' = [checks EXCEPT ![i] = @ + 1]
           /\ IF IsStable(h, lin, ang)
              THEN \E q \in RotationChoices(i) :
                     lockDicePhysics(i, "detector", q, ts)
              ELSE /\ timers' = ts
                   /\ linvel' = [linvel EXCEPT ![i] = lin]
                   /\ angvel' = [angvel EXCEPT ![i] = ang]
                   /\ moving' = [moving EXCEPT ![i] = m]
                   /\ UNCHANGED << finalValue, rotation, bodyType,
                                   isLocked, lockCount, lockedBy,
                                   notified, stableDiceCount,
                                   diceValues, hasCalculatedPoints,
                                   renderPending >>

\* The callback of the stability-check interval (stabilityCheckRef).  The
\* physics has moved the body since the last sample: a moving body is
\* MoveStep away from where it was and either keeps moving or has come to
\* rest there; a body at rest stays where it is.
CheckTick(i) ==
  \E t \in timers :
    /\ t.kind = "check" /\ t.body = i /\ Ready(t)
    /\ \E m \in ( IF moving[i] /\ ~MayRest(i) THEN { TRUE }
                  ELSE IF moving[i] THEN { TRUE, FALSE }
                  ELSE { FALSE } ) :
         LET p == IF moving[i] THEN MoveStep - pos[i] ELSE pos[i]
             v == IF m THEN MoveVel ELSE 0
         IN  checkStability(i, p, v, v, m,
                            (timers \ { t }) \cup { Rearm(t, CheckPeriod) })
    /\ UNCHANGED << now, resetCount, isRolling, totalPoints, lastResetCount,
                    currentDamping, isResetting, acceptTime, completions,
                    pubGen, lastTrigger, stalls, damped, fault,
                    pointsVars >>

\* A forced-lock callback with its guard inverted.
ForcedGuardInverted(i) == isLocked[i]

\* The guard of the forced-lock callback.
ForcedGuard(i) == ~isLocked[i]

\* The callback of the forced-lock timeout, which no ref holds.
ForcedFire(i) ==
  \E t \in timers :
    /\ t.kind = "forced" /\ t.body = i /\ Ready(t)
    /\ IF ForcedGuard(i)
       THEN \E q \in RotationChoices(i) :
              lockDicePhysics(i, "timeout", q, timers \ { t })
       ELSE /\ timers' = timers \ { t }
            /\ UNCHANGED lockVars
    /\ UNCHANGED << now, resetCount, isRolling, totalPoints, lastResetCount,
                    currentDamping, positionHistory, isResetting, pos,
                    acceptTime, completions, pubGen, checks, lastTrigger,
                    stalls, damped, fault,
                    pointsVars >>

\* ---------------------------------- the DiceContainer that renders Points
\* handleReset of the DiceContainer that renders Points, and the render it
\* causes: it makes every body dynamic again before the PhysicsDice children
\* run their effect for the new resetCount.  resetCount is Date.now(), a new
\* value at every accepted call; the model counts the calls.
handleResetTrigger ==
  LET gen == resetCount + 1
      kept == { t \in timers : t.kind # "rolling" /\ t.kind \notin RefKinds }
      spawn == { Timer("spawn", i, now + StartDelay, gen) : i \in Bodies }
  IN  /\ CanTrigger
      /\ resetCount < MaxRolls
      /\ stableDiceCount' = 0
      /\ hasCalculatedPoints' = FALSE
      /\ bodyType' = [i \in Bodies |-> "dynamic"]
      /\ isRolling' = TRUE
      /\ resetCount' = gen
      /\ timers' = kept \cup spawn
                    \cup { Timer("rolling", diceCount,
                                 now + RollingTimeoutDelayed, gen) }
      /\ renderPending' = FALSE
      /\ lastResetCount' = [i \in Bodies |-> gen]
      /\ positionHistory' = [i \in Bodies |-> HistoryAfterReset(i)]
      /\ isResetting' = [i \in Bodies |-> TRUE]
      /\ currentDamping' = [i \in Bodies |-> DampingStart]
      /\ isLocked' = [i \in Bodies |-> LockedFlagAfterReset(i)]
      /\ finalValue' = [i \in Bodies |-> 1]
      /\ acceptTime' = now
      /\ completions' = 0
      /\ lockCount' = [i \in Bodies |-> 0]
      /\ notified' = [i \in Bodies |-> 0]
      /\ lockedBy' = [i \in Bodies |-> "none"]
      /\ checks' = [i \in Bodies |-> 0]
      /\ lastTrigger' = "accepted"
      /\ damped' = [i \in Bodies |-> FALSE]
      /\ fault' = [i \in Bodies |-> "none"]
      /\ UNCHANGED << now, diceValues, totalPoints, pos, moving, linvel,
                      angvel, rotation, pubGen, stalls, pointsVars >>

\* The setTimeout callback of that container's handleDiceStable.
TriggerFire ==
  \E t \in timers :
    /\ t.kind = "trigger" /\ Ready(t)
    /\ timers' = timers \ { t }
    /\ updateTrigger' = updateTrigger + 1
    /\ renderPending' = TRUE
    /\ completions' = completions + 1
    /\ pubGen' = t.gen
    /\ UNCHANGED << now, coordVars, diceVars, rigidVars, acceptTime,
                    lockCount, notified, lockedBy, checks, lastTrigger,
                    stalls, damped, fault, container, pointsSeen >>

\* ------------------------------------------------------------------ Points
RECURSIVE UpFaceAfterOfPoints(_, _)

\* The faces as Points lists them.
facesOfPoints ==
  << [normal |-> << 0, 0, 1 >>, value |-> 1],
     [normal |-> << 1, 0, 0 >>, value |-> 2],
     [normal |-> << 0, 1, 0 >>, value |-> 3],
     [normal |-> << 0, 0, -1 >>, value |-> 4],
     [normal |-> << -1, 0, 0 >>, value |-> 5],
     [normal |-> << 0, -1, 0 >>, value |-> 6] >>

\* The forEach of the copy in Points after its first k faces: maxAlignment
\* (unset for -Infinity) and upFaceValue.
UpFaceAfterOfPoints(q, k) ==
  IF k = 0 THEN [set |-> FALSE, max |-> 0, value |-> 1]
  ELSE LET prev == UpFaceAfterOfPoints(q, k - 1)
           alignment == Alignment(q, facesOfPoints[k].normal)
       IN  IF ~prev.set \/ alignment > prev.max
           THEN [set |-> TRUE, max |-> alignment,
                 value |-> facesOfPoints[k].value]
           ELSE prev

\* getDiceValueFromRotation, the copy in Points.
getDiceValueFromRotationOfPoints(q) ==
  UpFaceAfterOfPoints(q, Len(facesOfPoints)).value

\* The effects of Points run after a render of the container has been
\* committed, for the dependencies that changed since they last ran.
PointsEffectsDue ==
  /\ container = "points"
  /\ ~renderPending
  /\ pointsSeen # PointsDeps(updateTrigger, isRolling, resetCount)

\* A computing effect that does not look at isRolling.
PointsGuardNoRolling(trigger, rolling) == trigger > 0

\* The guard of the computing effect.
PointsGuard(trigger, rolling) == trigger > 0 /\ ~rolling

\* The resetting effect runs and resets.
PointsResets == resetCount # pointsSeen.count /\ resetCount > 0

\* The computing effect runs and computes.
PointsComputes ==
  /\ updateTrigger # pointsSeen.trigger \/ isRolling # pointsSeen.rolling
  /\ PointsGuard(updateTrigger, isRolling)

\* The values the computing effect pushes: one for every body, in index
\* order (every entry of diceRefs is set while the dice are mounted).
PointsRead ==
  [k \in 1 .. diceCount |->
     getDiceValueFromRotationOfPoints(rotation[k - 1])]

\* The effects of Points: the resetting one, then the computing one.  Their
\* state is local to Points, whose re-render touches no PhysicsDice.
PointsEffects ==
  /\ PointsEffectsDue
  /\ pointsSeen' = PointsDeps(updateTrigger, isRolling, resetCount)
  /\ diceValues' = IF PointsComputes THEN PointsRead
                   ELSE IF PointsResets THEN << >> ELSE diceValues
  /\ totalPoints' = IF PointsComputes THEN ReduceSum(PointsRead)
                    ELSE IF PointsResets THEN 0 ELSE totalPoints
  /\ UNCHANGED << loopVars, resetCount, isRolling, stableDiceCount,
                  hasCalculatedPoints, diceVars, rigidVars, histVars,
                  container, updateTrigger >>

\* A click on the button of that container; pending effects are flushed
\* before the click is handled.
ButtonClickTrigger ==
  /\ ~renderPending
  /\ ~PointsEffectsDue
  /\ ~isRolling
  /\ handleResetTrigger

\* -------------------------------------------------------------- the clock
\* Nothing is due, no render is pending and no effect waits: the clock moves
\* to the next due time.
Tick ==
  /\ ~renderPending
  /\ ~PointsEffectsDue
  /\ timers # {}
  /\ Due = {}
  /\ now' = SetMin({ t.due : t \in timers })
  /\ UNCHANGED << timers, renderPending, coordVars, diceVars, rigidVars,
                  histVars,
                    pointsVars >>

Next ==
  \/ ButtonClick
  \/ Render
  \/ CompletionFire
  \/ RollingFire
  \/ \E i \in Bodies : SpawnFire(i)
  \/ \E i \in Bodies : DampStartFire(i)
  \/ \E i \in Bodies : RampTick(i)
  \/ \E i \in Bodies : CheckTick(i)
  \/ \E i \in Bodies : ForcedFire(i)
  \/ Tick

Spec == Init /\ [][Next]_vars

\* The event loop runs what is due and the clock advances; only the click is
\* up to the user.
System ==
  \/ Render
  \/ CompletionFire
  \/ RollingFire
  \/ \E i \in Bodies : SpawnFire(i)
  \/ \E i \in Bodies : DampStartFire(i)
  \/ \E i \in Bodies : RampTick(i)
  \/ \E i \in Bodies : CheckTick(i)
  \/ \E i \in Bodies : ForcedFire(i)
  \/ Tick

FairSpec == Spec /\ WF_vars(System)

\* ------------------------------------------- the container with Points
PointsInit == InitWith("points")

PointsNext ==
  \/ ButtonClickTrigger
  \/ Render
  \/ PointsEffects
  \/ TriggerFire
  \/ RollingFire
  \/ \E i \in Bodies : SpawnFire(i)
  \/ \E i \in Bodies : DampStartFire(i)
  \/ \E i \in Bodies : RampTick(i)
  \/ \E i \in Bodies : CheckTick(i)
  \/ \E i \in Bodies : ForcedFire(i)
  \/ Tick

PointsSpec == PointsInit /\ [][PointsNext]_vars

\* ------------------------------------------------- a stalled event loop
\* setTimeout promises a minimum delay only.  Here the event loop, idle at
\* first, is busy from before the next due time until the one after it: the
\* callbacks that are due by then run late, in the order Precedes leaves
\* open (a timer waits only for the timers started before it with a delay no
\* longer than its own).
Later == { t.due : t \in { u \in timers : u.due > now } }

Stall ==
  /\ stalls < MaxStalls
  /\ ~renderPending
  /\ Due = {}
  /\ Later # {}
  /\ Later \ { SetMin(Later) } # {}
  /\ now' = SetMin(Later \ { SetMin(Later) })
  /\ stalls' = stalls + 1
  /\ UNCHANGED << timers, renderPending, coordVars, diceVars, rigidVars,
                  acceptTime, completions, pubGen, lockCount, notified,
                  lockedBy, checks, lastTrigger, damped, fault,
                    pointsVars >>

\* The dice of LateSpec never come to rest by themselves.
Restless == \A i \in Bodies : (moving[i] /\ ~moving'[i]) => isLocked'[i]

LateNext ==
  \/ Next /\ Restless
  \/ Stall

LateSpec == Init /\ [][LateNext]_vars

\* -------------------------------------------------- a faulty body handle
\* The rigid-body handle behind diceRef.current fails once in a roll, for one
\* body: a command of the spawn callback throws, or the read of the rotation
\* in lockDicePhysics, called by the forced timeout, fails.
NoFault == \A j \in Bodies : fault[j] = "none"

\* What getDiceValueFromRotation returns for a rotation of NaN components:
\* no alignment passes the comparison, upFaceValue stays as initialised.
ResolveUnreadable == UpFaceAfter(Quat(0, 0, 0, 0), 0).value

\* The spawn callback, a command to the handle throwing: nothing catches it,
\* the callback ends there, before it starts the damping-start timer and the
\* forced timeout.  The throw comes at the first command or after the body
\* has been made dynamic and put in place.
SpawnFireFault(i) ==
  \E t \in timers :
    /\ t.kind = "spawn" /\ t.body = i /\ Ready(t)
    /\ NoFault
    /\ fault' = [fault EXCEPT ![i] = "spawn"]
    /\ timers' = timers \ { t }
    /\ \/ UNCHANGED rigidVars
       \/ /\ bodyType' = [bodyType EXCEPT ![i] = "dynamic"]
          /\ pos' = [pos EXCEPT ![i] = 0]
          /\ moving' = [moving EXCEPT ![i] = TRUE]
          /\ UNCHANGED << linvel, angvel, rotation,
                    pointsVars >>
    /\ UNCHANGED << now, renderPending, coordVars, diceVars, acceptTime,
                    completions, pubGen, lockCount, notified, lockedBy,
                    checks, lastTrigger, stalls, damped,
                    pointsVars >>

\* The forced-lock callback, the read of the rotation failing: it throws, and
\* nothing catches it, or it returns NaN components.
ForcedFireFault(i) ==
  \E t \in timers :
    /\ t.kind = "forced" /\ t.body = i /\ Ready(t)
    /\ ForcedGuard(i)
    /\ CanLock(i)
    /\ NoFault
    /\ fault' = [fault EXCEPT ![i] = "read"]
    /\ \/ /\ timers' = timers \ { t }
          /\ UNCHANGED lockVars
       \/ lockBody(i, "timeout", rotation[i], ResolveUnreadable, timers \ { t })
    /\ UNCHANGED << now, resetCount, isRolling, totalPoints, lastResetCount,
                    currentDamping, positionHistory, isResetting, pos,
                    acceptTime, completions, pubGen, checks, lastTrigger,
                    stalls, damped,
                    pointsVars >>

FaultNext ==
  \/ Next
  \/ \E i \in Bodies : SpawnFireFault(i)
  \/ \E i \in Bodies : ForcedFireFault(i)

FaultSpec == Init /\ [][FaultNext]_vars

\* ------------------------------------- the coordinator under a test harness
\* DiceContainer alone: the harness calls handleReset at any time and
\* delivers settled notifications for any body, any number of times.
RECURSIVE SumUpTo(_, _)
SumUpTo(f, n) == IF n < 0 THEN 0 ELSE f[n] + SumUpTo(f, n - 1)

CoordTrigger == handleReset(FALSE)

CoordSettled ==
  \E i \in Bodies : \E q \in RotationChoices(i) :
    /\ isRolling
    /\ SumUpTo(notified, diceCount - 1) < MaxDeliveries
    /\ notified' = [notified EXCEPT ![i] = @ + 1]
    /\ handleDiceStable(i, getDiceValueFromRotation(q), timers)
    /\ UNCHANGED << now, resetCount, isRolling, totalPoints, diceVars,
                    rigidVars, acceptTime, completions, pubGen, lockCount,
                    lockedBy, checks, lastTrigger, stalls, damped, fault,
                    pointsVars >>

CoordNext ==
  \/ CoordTrigger
  \/ CoordSettled
  \/ CompletionFire
  \/ RollingFire
  \/ Render
  \/ Tick

CoordSpec == Init /\ [][CoordNext]_vars

\* ---------------------------------- one notification per body, in any order
\* DiceContainer alone: the harness calls handleReset and, in a session,
\* delivers the settled notification of each body once, in any order, with
\* the value the body has resolved.
OrderSettled ==
  \E i \in Bodies : \E q \in RotationChoices(i) :
    /\ isRolling
    /\ notified[i] = 0
    /\ notified' = [notified EXCEPT ![i] = 1]
    /\ finalValue' = [finalValue EXCEPT ![i] = getDiceValueFromRotation(q)]
    /\ handleDiceStable(i, getDiceValueFromRotation(q), timers)
    /\ UNCHANGED << now, resetCount, isRolling, totalPoints, lastResetCount,
                    isLocked, currentDamping, positionHistory, isResetting,
                    rigidVars, acceptTime, completions, pubGen, lockCount,
                    lockedBy, checks, lastTrigger, stalls, damped, fault,
                    pointsVars >>

OrderNext ==
  \/ CoordTrigger
  \/ OrderSettled
  \/ CompletionFire
  \/ RollingFire
  \/ Render
  \/ Tick

OrderSpec == Init /\ [][OrderNext]_vars

\* ------------------------------------------ the detector under a harness
\* checkStability alone, on body 0: the harness puts the body at any of
\* SamplePositions with any of SampleVelocities and calls checkStability,
\* every CheckPeriod.
SamplePositions == { 0, 1, PosEps, PosEps + 1, MoveStep }
SampleVelocities == { 0, VelEps, VelEps + 1 }

ObserveWith(p, lin, ang) ==
  /\ checkStability(0, p, lin, ang, lin > 0 \/ ang > 0, timers)
  /\ now' = now + CheckPeriod
  /\ UNCHANGED << resetCount, isRolling, totalPoints, lastResetCount,
                  currentDamping, isResetting, acceptTime, completions,
                  pubGen, lastTrigger, stalls, damped, fault,
                    pointsVars >>

DetectObserve ==
  /\ now < MaxObserve * CheckPeriod
  /\ \E p \in SamplePositions : \E lin \in SampleVelocities :
       \E ang \in SampleVelocities : ObserveWith(p, lin, ang)

DetectNext == DetectObserve

DetectSpec == Init /\ [][DetectNext]_vars

\* ------------------------------------ the history window under a harness
\* checkStability alone, on body 0, for more calls than the history holds:
\* the harness puts the body at 0 or MoveStep, at rest, and calls
\* checkStability, every CheckPeriod.
WindowObserve ==
  /\ now < MaxWindowObserve * CheckPeriod
  /\ \E p \in { 0, MoveStep } : ObserveWith(p, 0, 0)

WindowNext == WindowObserve

WindowSpec == Init /\ [][WindowNext]_vars

\* ------------------------------------------ the resolver under a harness
\* getDiceValueFromRotation alone: the harness turns body 0 a little, to a
\* non-zero quaternion q next to its rotation, draws a scale factor k and
\* resolves q for body 0, q once more for body 1, and k*q for body 2; the
\* copy in Points resolves q for body 3 and k*q for body 4.
Quaternions ==
  { Quat(x, y, z, w) : x \in -QuatMax .. QuatMax, y \in -QuatMax .. QuatMax,
                       z \in -QuatMax .. QuatMax, w \in -QuatMax .. QuatMax }
    \ { Quat(0, 0, 0, 0) }

Scale(q, k) == Quat(k * q.x, k * q.y, k * q.z, k * q.w)

Near(q, r) ==
  Abs(q.x - r.x) + Abs(q.y - r.y) + Abs(q.z - r.z) + Abs(q.w - r.w) <= 1

ResolveCall ==
  \E q \in { r \in Quaternions : Near(r, rotation[0]) } : \E k \in 1 .. MaxScale :
    /\ rotation' = [rotation EXCEPT ![0] = q, ![1] = q, ![2] = Scale(q, k),
                                    ![3] = q, ![4] = Scale(q, k)]
    /\ finalValue' = [finalValue EXCEPT
                        ![0] = getDiceValueFromRotation(q),
                        ![1] = getDiceValueFromRotation(q),
                        ![2] = getDiceValueFromRotation(Scale(q, k)),
                        ![3] = getDiceValueFromRotationOfPoints(q),
                        ![4] = getDiceValueFromRotationOfPoints(Scale(q, k))]
    /\ UNCHANGED << loopVars, coordVars, lastResetCount, isLocked,
                    currentDamping, positionHistory, isResetting, bodyType,
                    pos, moving, linvel, angvel, histVars,
                    pointsVars >>

ResolveNext == ResolveCall

ResolveSpec == Init /\ [][ResolveNext]_vars

\* ------------------------------------------------ the ramp under a harness
\* The damping ramp of body 0 alone, without the forced timeout: the harness
\* brings the body into its first roll and starts the ramp interval as the
\* damping-start callback does, and locks the body at any time, in any
\* orientation; the interval, the re-render and the clock are the program's.
RampArm ==
  /\ lastResetCount[0] = 0
  /\ lastResetCount' = [lastResetCount EXCEPT ![0] = 1]
  /\ damped' = [damped EXCEPT ![0] = TRUE]
  /\ timers' = timers \cup { Timer("ramp", 0, now + RampPeriod, 1) }
  /\ UNCHANGED << now, renderPending, coordVars, isLocked, currentDamping,
                  finalValue, positionHistory, isResetting, rigidVars,
                  acceptTime, completions, pubGen, lockCount, notified,
                  lockedBy, checks, lastTrigger, stalls, fault,
                    pointsVars >>

RampLock ==
  /\ damped[0]
  /\ \E v \in 1 .. 6 : lockDicePhysics(0, "timeout", Orientation[v], timers)
  /\ UNCHANGED << now, resetCount, isRolling, totalPoints, lastResetCount,
                  currentDamping, positionHistory, isResetting, pos,
                  acceptTime, completions, pubGen, checks, lastTrigger,
                  stalls, damped, fault,
                    pointsVars >>

RampNext ==
  \/ RampArm
  \/ RampLock
  \/ RampTick(0)
  \/ Render
  \/ Tick

RampSpec == Init /\ [][RampNext]_vars

\* ================================================================ properties
ForcedPending(i) == \E t \in timers : t.kind = "forced" /\ t.body = i
CompletionPending == { t \in timers : t.kind = "completion" }
\* The latest time the forced timeout of the current roll locks a body.
LockDeadline == acceptTime + StartDelay + ForcedTimeout
ValuesByBody == [k \in 1 .. diceCount |-> finalValue[k - 1]]

\* C1: in a roll the completion callback is scheduled and run at most once,
\* and only when every one of the diceCount bodies has been counted settled
\* (stableDiceCount = diceCount, one notification per body).
C1_CompletionOnceAfterAll ==
  /\ completions + Cardinality(CompletionPending) <= 1
  /\ (completions > 0 \/ CompletionPending # {} \/ hasCalculatedPoints)
       => /\ stableDiceCount = diceCount
          /\ \A i \in Bodies : notified[i] = 1

C1_Witness ==
  /\ completions = 1
  /\ stableDiceCount = diceCount
  /\ \E i \in Bodies : lockedBy[i] = "detector"
  /\ \E i \in Bodies : lockedBy[i] = "timeout"

\* C2: a call of handleReset while isRolling is rejected and changes nothing:
\* not resetCount, stableDiceCount, hasCalculatedPoints, diceValues,
\* totalPoints, nor any timer (the rolling timeout stays), nor any body.
C2_TriggerWhileRollingIsNoOp ==
  [][ (isRolling /\ CoordTrigger)
        => /\ lastTrigger' = "rejected"
           /\ UNCHANGED << loopVars, coordVars, diceVars, rigidVars >> ]_vars

C2_Witness ==
  /\ lastTrigger = "rejected"
  /\ isRolling
  /\ stableDiceCount > 0
  /\ \E t \in timers : t.kind = "rolling"

\* C3: stableDiceCount counts each body once however often the body reports
\* settled, so it cannot reach diceCount while a body has not reported.
C3_DuplicateSettledCountedOnce ==
  /\ stableDiceCount = Cardinality({ i \in Bodies : notified[i] > 0 })
  /\ stableDiceCount >= diceCount => \A i \in Bodies : notified[i] > 0

\* C4: in one roll a body is frozen at most once and reports settled at most
\* once, whichever of the stability check and the forced timeout comes first.
C4_LockedAtMostOnce ==
  \A i \in Bodies : lockCount[i] <= 1 /\ notified[i] <= 1

\* A body the detector locked, whose forced timeout has run since.
C4_Witness ==
  \E i \in Bodies :
    /\ lockedBy[i] = "detector"
    /\ lockCount[i] = 1
    /\ now >= LockDeadline
    /\ ~ForcedPending(i)

\* C5: whatever the stability checks found, every body is locked once the
\* forced timeout of the roll (StartDelay + ForcedTimeout after the roll was
\* accepted) has run.
C5_LockedByDeadline ==
  resetCount > 0 =>
    \A i \in Bodies :
      /\ now > LockDeadline => isLocked[i]
      /\ (now = LockDeadline /\ ~ForcedPending(i)) => isLocked[i]

\* A body whose checks never found it stable, locked by the forced timeout.
C5_Witness ==
  \E i \in Bodies :
    /\ lockedBy[i] = "timeout"
    /\ checks[i] >= Window
    /\ isLocked[i]
    /\ now = LockDeadline

\* C6: every accepted roll completes: while it is the current roll, all
\* bodies get locked, stableDiceCount reaches diceCount and the completion
\* callback publishes its total; a roll is accepted only when the roll before
\* it has completed.
RollCompleted ==
  /\ \A i \in Bodies : isLocked[i]
  /\ stableDiceCount = diceCount
  /\ completions = 1
  /\ pubGen = resetCount
  /\ totalPoints >= diceCount

C7_TotalIsSumOfValues ==
  completions > 0 =>
    /\ diceValues = ValuesByBody
    /\ totalPoints = SumUpTo(finalValue, diceCount - 1)
    /\ Breakdown(diceValues) = ValuesByBody

C7_Witness ==
  /\ completions = 1
  /\ diceValues = ExampleValues
  /\ Breakdown(diceValues) = << 3, 5, 1, 6, 2 >>
  /\ totalPoints = 17

\* C8: accepting a roll cancels every timer of the roll before, so every live
\* timer belongs to the current roll.
C8_NoTimerOfPreviousRoll ==
  \A t \in timers : t.gen = resetCount

\* C9: a callback of a superseded roll is discarded: when it runs, the state
\* of the coordinator, of the dice and of the bodies stays as it is.
C9_StaleCallbackDiscarded ==
  [][ \A t \in timers :
        (t.gen < resetCount /\ t \notin timers' /\ resetCount' = resetCount)
          => UNCHANGED << coordVars, diceVars, rigidVars >> ]_vars

\* C10: the history holds samples of the current roll only, and the detector
\* locks a body on the Window-th check of the roll at the earliest.
C10_NoSettleBeforeWindow ==
  \A i \in Bodies :
    /\ Len(positionHistory[i]) <= checks[i]
    /\ \A k \in 1 .. Len(positionHistory[i]) :
         positionHistory[i][k].time > acceptTime
    /\ lockedBy[i] = "detector"
         => checks[i] >= Window /\ Len(positionHistory[i]) >= Window

\* In a second roll, a body locked by the detector on its Window-th check.
C10_Witness ==
  /\ resetCount = 2
  /\ \E i \in Bodies :
       /\ lockedBy[i] = "detector"
       /\ checks[i] = Window
       /\ Len(positionHistory[i]) = Window

\* The positions of body 0's history, oldest first.
Sampled == [k \in 1 .. Len(positionHistory[0]) |-> positionHistory[0][k].pos]

\* C11: five samples within 1e-5 of each other with both velocities zero
\* lock the body on the fifth call of checkStability, and no call before the
\* fifth locks it.
C11_SettlesOnFifthSample ==
  /\ checks[0] < Window => ~isLocked[0]
  /\ ( /\ checks[0] = Window
       /\ \A j, k \in 1 .. Len(Sampled) : Abs(Sampled[j] - Sampled[k]) <= 1
       /\ linvel[0] = 0
       /\ angvel[0] = 0 )
       => isLocked[0] /\ lockedBy[0] = "detector" /\ bodyType[0] = "fixed"

C11_Witness ==
  /\ isLocked[0]
  /\ lockedBy[0] = "detector"
  /\ checks[0] = Window
  /\ Sampled = << 0, 1, 0, 1, 1 >>

\* C12: a body the detector has locked had each of the 4 displacements
\* between its 5 most recent samples at most PosEps; 4 samples 0.01 apart and
\* a 5th equal to the 4th do not lock it.
C12_NoSettleOnLargeDisplacement ==
  /\ isLocked[0] =>
       /\ Len(Sampled) >= Window
       /\ \A k \in 1 .. (Window - 1) :
            Abs(Sampled[Len(Sampled) - k] - Sampled[Len(Sampled) - k + 1])
              <= PosEps
  /\ Sampled = << 0, MoveStep, 0, MoveStep, MoveStep >> => ~isLocked[0]

C12_Witness ==
  /\ Sampled = << 0, MoveStep, 0, MoveStep, MoveStep >>
  /\ linvel[0] = 0
  /\ angvel[0] = 0
  /\ ~isLocked[0]

\* C13: a call of checkStability whose positional test passes locks the body
\* exactly when both velocity magnitudes are at most VelEps.
C13_SettledIffVelocitiesSmall ==
  [][ \A p \in SamplePositions : \A lin \in SampleVelocities :
        \A ang \in SampleVelocities :
          ( /\ ObserveWith(p, lin, ang)
            /\ ~isLocked[0]
            /\ EnoughHistory(positionHistory'[0])
            /\ PositionsStable(positionHistory'[0]) )
            => (isLocked'[0] <=> (lin <= VelEps /\ ang <= VelEps)) ]_vars

\* The positional test passed and only the angular velocity was too large.
C13_Witness ==
  /\ ~isLocked[0]
  /\ checks[0] = Window
  /\ \A j, k \in 1 .. Len(Sampled) : Abs(Sampled[j] - Sampled[k]) <= PosEps
  /\ Len(Sampled) = Window
  /\ linvel[0] = VelEps
  /\ angvel[0] = VelEps + 1

\* The local axes Z+, X+, Y+, Z-, X-, Y-.
LocalAxis ==
  << << 0, 0, 1 >>, << 1, 0, 0 >>, << 0, 1, 0 >>,
     << 0, 0, -1 >>, << -1, 0, 0 >>, << 0, -1, 0 >> >>

\* C14: for each of the six orientations with a local axis along world-up,
\* the resolver returns the value of the face on that axis: Z+ 1, X+ 2,
\* Y+ (the identity) 3, Z- 4, X- 5, Y- 6.
C14_CanonicalOrientations ==
  [][ \A v \in 1 .. 6 :
        /\ Alignment(Orientation[v], LocalAxis[v]) = 2
        /\ rotation'[0] = Orientation[v] => finalValue'[0] = v ]_vars

C14_Witness ==
  /\ rotation[0] = Orientation[6]
  /\ Alignment(rotation[0], << 0, -1, 0 >>) = 2
  /\ finalValue[0] = 6

C16_ScaleInvariant ==
  (\E k \in 1 .. MaxScale : rotation[2] = Scale(rotation[0], k))
    => finalValue[2] = finalValue[0]

\* The states of a body: Idle before the first roll, Falling from the reset
\* of the effect to the damping-start callback, Damping from then on, Locked
\* once lockDicePhysics has frozen it.
Idle(i) == lastResetCount[i] = 0
Locked(i) == isLocked[i]
Falling(i) == lastResetCount[i] > 0 /\ ~isLocked[i] /\ ~damped[i]
Damping(i) == lastResetCount[i] > 0 /\ ~isLocked[i] /\ damped[i]

\* C17: a roll accepted while a body is Locked makes the body Falling:
\* isLockedRef is cleared, the damping is DampingStart again, the history is
\* empty; and a body is dynamic whenever checkStability samples it.
C17_RespawnUnlocks ==
  [][ \A i \in Bodies :
        /\ (resetCount' # resetCount /\ isLocked[i])
             => /\ ~isLocked'[i]
                /\ ~damped'[i]
                /\ lastResetCount'[i] = resetCount'
                /\ currentDamping'[i] = DampingStart
                /\ positionHistory'[i] = << >>
        /\ checks'[i] > checks[i] => bodyType[i] = "dynamic" ]_vars

\* In a second roll, a body that was locked in the first is sampled again.
C17_Witness ==
  /\ resetCount = 2
  /\ \E i \in Bodies :
       /\ Damping(i)
       /\ bodyType[i] = "dynamic"
       /\ checks[i] = 1
       /\ Len(positionHistory[i]) = 1

\* C18: a Locked body has entered Damping in its roll, and within a roll a
\* body neither leaves Locked nor goes back from Damping to Falling.
C18_PhasesOrdered ==
  /\ [](\A i \in Bodies : isLocked[i] => damped[i])
  /\ [][ resetCount' = resetCount =>
           \A i \in Bodies :
             /\ Locked(i) => isLocked'[i]
             /\ Damping(i) => damped'[i] ]_vars

C18_Witness ==
  /\ resetCount = 2
  /\ \A i \in Bodies : Locked(i) /\ damped[i]
  /\ \E i \in Bodies : lockedBy[i] = "detector"

\* C19: checkStability appends a sample to the history of a body only while
\* the body is in Damping.
C19_SampledOnlyInDamping ==
  [][ \A i \in Bodies :
        (positionHistory'[i] # positionHistory[i] /\ positionHistory'[i] # << >>)
          => Damping(i) ]_vars

C19_Witness ==
  \E i \in Bodies :
    /\ Damping(i)
    /\ Len(positionHistory[i]) = HistoryCap
    /\ checks[i] > HistoryCap

\* C20: until the next roll is accepted a Locked body stays locked and
\* fixed, with its face value, its damping and its velocities as they are.
C20_LockedIsTerminal ==
  [][ resetCount' = resetCount =>
        \A i \in Bodies :
          Locked(i) =>
            /\ isLocked'[i]
            /\ finalValue'[i] = finalValue[i]
            /\ currentDamping'[i] = currentDamping[i]
            /\ linvel'[i] = linvel[i]
            /\ angvel'[i] = angvel[i]
            /\ moving'[i] = moving[i]
            /\ bodyType'[i] = bodyType[i] ]_vars

\* A body locked by the forced timeout while its ramp had not finished, with
\* its ramp and check callbacks of the same instant run since.
C20_Witness ==
  \E i \in Bodies :
    /\ lockedBy[i] = "timeout"
    /\ currentDamping[i] < DampingMax
    /\ \E t \in timers : t.kind = "ramp" /\ t.body = i /\ t.due > now
    /\ \E t \in timers : t.kind = "check" /\ t.body = i /\ t.due > now

\* C21: within a session stableDiceCount never decreases, lies in
\* 0..diceCount and stays at diceCount once it is there; it changes only by
\* one notification counted by handleDiceStable (plus one) and by an accepted
\* handleReset (back to 0).
C21_CountMonotoneInRange ==
  /\ [](stableDiceCount \in 0 .. diceCount)
  /\ [][ /\ resetCount' = resetCount => stableDiceCount' >= stableDiceCount
         /\ (resetCount' = resetCount /\ stableDiceCount = diceCount)
              => stableDiceCount' = diceCount
         /\ stableDiceCount' # stableDiceCount
              => \/ /\ resetCount' = resetCount + 1
                    /\ stableDiceCount' = 0
                 \/ /\ resetCount' = resetCount
                    /\ stableDiceCount' = stableDiceCount + 1
                    /\ \E i \in Bodies : notified'[i] = notified[i] + 1 ]_vars

\* The second session has counted all bodies, after the reset of a full count.
C21_Witness ==
  /\ resetCount = 2
  /\ stableDiceCount = diceCount
  /\ \A i \in Bodies : notified[i] = 1
  /\ isRolling

\* The indices of diceValues that hold a face value.
Entries == { k \in 1 .. Len(diceValues) : diceValues[k] \in 1 .. 6 }

\* C22: diceValues holds a face value in 1..6 exactly at the indices of the
\* bodies that have reported settled in the session, the value the body
\* reported; these are stableDiceCount entries while stableDiceCount is below
\* diceCount, and all diceCount indices once the completion of the session is
\* scheduled or has run.
C22_OneValuePerSettledBody ==
  /\ Entries = { i + 1 : i \in { b \in Bodies : notified[b] > 0 } }
  /\ \A i \in Bodies : notified[i] > 0 => diceValues[i + 1] = finalValue[i]
  /\ stableDiceCount < diceCount => Cardinality(Entries) = stableDiceCount
  /\ ( \/ completions > 0 /\ pubGen = resetCount
       \/ \E t \in CompletionPending : t.gen = resetCount )
       => /\ Entries = 1 .. diceCount
          /\ Len(diceValues) = diceCount

\* Two of the later bodies have settled, the first has not: its slot is
\* there, without a face value.
C22_Witness ==
  /\ resetCount = 2
  /\ stableDiceCount = 2
  /\ Cardinality(Entries) = 2
  /\ notified[0] = 0
  /\ diceValues[1] = NaN

C24_NoPartialTotalShown ==
  /\ isRolling => DisplayedTotal = "..." /\ DisplayedBreakdown = << >>
  /\ totalPoints # 0 =>
       /\ stableDiceCount = diceCount
       /\ totalPoints = SumUpTo(finalValue, diceCount - 1)
  /\ (~isRolling /\ resetCount > 0) =>
       /\ DisplayedTotal = ToString(SumUpTo(finalValue, diceCount - 1))
       /\ DisplayedBreakdown = ValuesByBody

\* Three bodies of the second roll have settled: the display shows "...".
C24_Witness ==
  /\ resetCount = 2
  /\ isRolling
  /\ stableDiceCount = 3
  /\ Cardinality(Entries) = 3
  /\ DisplayedTotal = "..."
  /\ totalPoints = 0

\* The timers of body i that drive its damping: the damping-start timeout
\* and the ramp and stability-check intervals.
DampingTimers(i) ==
  { t \in timers : t.body = i /\ t.kind \in { "dampStart", "ramp", "check" } }

\* C25: the step that locks a body leaves none of the body's damping-start,
\* ramp and stability-check timers scheduled, sets both its velocities to
\* zero and makes it a fixed body.
C25_LockCancelsTimers ==
  [][ \A i \in Bodies :
        (~isLocked[i] /\ isLocked'[i])
          => /\ DampingTimers(i)' = {}
             /\ linvel'[i] = 0
             /\ angvel'[i] = 0
             /\ bodyType'[i] = "fixed" ]_vars

\* C26: the damping of a body lies between DampingStart and DampingMax; a
\* ramp callback raises it by DampingStep when the body is in Damping below
\* the ceiling and leaves it as it is when the body is locked; nothing else
\* changes it, and the callbacks of a body come RampPeriod apart, none after
\* the one that reaches the ceiling.
C26_RampBoundedAndStepwise ==
  /\ [](\A i \in Bodies : currentDamping[i] \in DampingStart .. DampingMax)
  /\ [][ \A i \in Bodies :
           /\ RampTick(i) =>
                /\ currentDamping'[i] =
                     IF Damping(i) /\ currentDamping[i] < DampingMax
                     THEN currentDamping[i] + DampingStep
                     ELSE currentDamping[i]
                /\ \A t \in timers' :
                     (t.kind = "ramp" /\ t.body = i) =>
                       /\ t.due = now + RampPeriod
                       /\ currentDamping'[i] < DampingMax
           /\ currentDamping'[i] # currentDamping[i]
                => RampTick(i) /\ Damping(i) ]_vars

\* The ramp of body 0 has reached the ceiling and its interval is gone.
C26_Witness ==
  /\ currentDamping[0] = DampingMax
  /\ Damping(0)
  /\ ~isResetting[0]
  /\ now = ((DampingMax - DampingStart) \div DampingStep) * RampPeriod
  /\ timers = {}

\* C27: a body whose rotation could not be read when its forced timeout ran
\* is locked all the same, has reported settled once, and its value is 1.
C27_ReadFailureFallsBack ==
  \A i \in Bodies :
    fault[i] = "read"
      => /\ isLocked[i]
         /\ bodyType[i] = "fixed"
         /\ notified[i] = 1
         /\ finalValue[i] = 1
         /\ diceValues[i + 1] = 1

\* C28: when a command of the spawn callback of a body fails, the callback
\* still starts the body's damping-start timer and forced timeout, so the
\* body is locked once the forced timeout has run; the other bodies are
\* locked and counted once each by then.
C28_SpawnFaultContained ==
  /\ [][ \A i \in Bodies :
           (fault[i] = "none" /\ fault'[i] = "spawn")
             => /\ Timer("dampStart", i, now + DampingStartDelay, resetCount)
                     \in timers'
                /\ Timer("forced", i, now + ForcedTimeout, resetCount)
                     \in timers' ]_vars
  /\ []( (now > LockDeadline /\ \E i \in Bodies : fault[i] = "spawn")
           => \A j \in Bodies : isLocked[j] /\ notified[j] = 1 )

\* C29: an accepted handleReset raises resetCount (by one, so above every
\* earlier value), sets stableDiceCount to 0 and hasCalculatedPoints to false
\* with no notification of the new roll counted yet, sets isRolling, and
\* makes every body run its effect for the new resetCount: unlocked, with a
\* spawn timer StartDelay ahead, which runs and starts the forced timeout.
C29_AcceptedTriggerStartsFreshRoll ==
  /\ [][ resetCount' # resetCount =>
           /\ resetCount' = resetCount + 1
           /\ stableDiceCount' = 0
           /\ ~hasCalculatedPoints'
           /\ isRolling'
           /\ diceValues' = << >>
           /\ \A i \in Bodies :
                /\ notified'[i] = 0
                /\ lastResetCount'[i] = resetCount'
                /\ ~isLocked'[i]
                /\ Timer("spawn", i, now + StartDelay, resetCount') \in timers' ]_vars
  /\ []( (resetCount > 0 /\ now > acceptTime + StartDelay /\ now < LockDeadline)
           => \A i \in Bodies : ForcedPending(i) /\ lastResetCount[i] = resetCount )
  /\ [](\A i \in Bodies : notified[i] > 0 => now > acceptTime + StartDelay)

\* The second roll has just been accepted, the first having completed.
C29_Witness ==
  /\ resetCount = 2
  /\ pubGen = 1
  /\ now = acceptTime
  /\ stableDiceCount = 0
  /\ ~hasCalculatedPoints
  /\ isRolling
  /\ Cardinality({ t \in timers : t.kind = "spawn" /\ t.gen = 2 }) = diceCount

\* The completion timer of the current session.
OwnCompletion == { t \in CompletionPending : t.gen = resetCount }

\* C30: in whatever order the diceCount bodies report settled, once each, the
\* completion is scheduled by the last report and by none before it,
\* diceValues then holds each body's value at the body's index, and the
\* total the completion publishes is the sum of these values.
C30_CompletionOrderIndependent ==
  /\ (\A i \in Bodies : notified[i] = 1) <=> stableDiceCount = diceCount
  /\ stableDiceCount < diceCount
       => ~hasCalculatedPoints /\ OwnCompletion = {}
  /\ stableDiceCount = diceCount
       => /\ hasCalculatedPoints
          /\ Cardinality(OwnCompletion) <= 1
          /\ diceValues = ValuesByBody
          /\ OwnCompletion = {}
               => totalPoints = SumUpTo(finalValue, diceCount - 1)

\* The second session is complete; the first body has reported the other of
\* its two values.
C30_Witness ==
  /\ resetCount = 2
  /\ \A i \in Bodies : notified[i] = 1
  /\ OwnCompletion = {}
  /\ diceValues = << 1, 5, 1, 6, 2 >>
  /\ totalPoints = 15

\* The faces, in the order of the table, whose rotated normal is aligned
\* best with world-up.
BestFaces(q) ==
  { k \in 1 .. 6 :
      \A j \in 1 .. 6 : Alignment(q, LocalAxis[k]) >= Alignment(q, LocalAxis[j]) }

\* C31: the resolver returns the value of the first face, in the order Z+,
\* X+, Y+, Z-, X-, Y- (values 1..6), among those of maximal alignment.
C31_FirstMaximumWins ==
  [][ finalValue'[0] = SetMin(BestFaces(rotation'[0])) ]_vars

\* A rotation under which the faces X+ and Y+ tie: X+, the earlier, wins.
C31_Witness ==
  /\ BestFaces(rotation[0]) = { 2, 3 }
  /\ finalValue[0] = 2
  /\ rotation[0] # Orientation[3]

\* C32: the history of a body holds at most HistoryCap samples; a call of
\* checkStability appends its sample at the end and, when that makes
\* HistoryCap + 1, drops the oldest; a body at rest is locked by the call
\* exactly when the Window most recent samples, the new one included, lie
\* within PosEps of their predecessors, whatever the older samples are.
C32_HistoryBoundedFifo ==
  /\ [](Len(positionHistory[0]) <= HistoryCap)
  /\ [][ (positionHistory'[0] # positionHistory[0] /\ positionHistory'[0] # << >>) =>
           LET h == positionHistory[0]
               g == positionHistory'[0]
           IN  /\ g[Len(g)].time = now
               /\ IF Len(h) < HistoryCap
                  THEN Len(g) = Len(h) + 1 /\ SubSeq(g, 1, Len(h)) = h
                  ELSE Len(g) = HistoryCap /\ SubSeq(g, 1, HistoryCap - 1) = Tail(h)
               /\ isLocked'[0] <=>
                    /\ Len(g) >= Window
                    /\ \A k \in (Len(g) - Window + 2) .. Len(g) :
                         Abs(g[k].pos - g[k - 1].pos) <= PosEps ]_vars

\* Twelve calls: the two oldest samples are gone, and the five most recent
\* have locked the body although the older ones in the history moved.
C32_Witness ==
  /\ checks[0] = 12
  /\ isLocked[0]
  /\ lockedBy[0] = "detector"
  /\ Sampled = << 0, MoveStep, 0, MoveStep, 0,
                  MoveStep, MoveStep, MoveStep, MoveStep, MoveStep >>
  /\ positionHistory[0][1].time = 2 * CheckPeriod

IntervalsOf(i) ==
  { t.kind : t \in { u \in timers : u.body = i /\ u.kind \in IntervalKinds } }

\* C34: a body in Damping has both its ramp interval and its stability-check
\* interval scheduled, whatever the container has rendered since they were
\* started, and the forced timeout locks only a body that is still moving: a
\* body at rest is locked by the detector.
C34_IntervalsSurviveRender ==
  /\ [](\A i \in Bodies : Damping(i) => IntervalsOf(i) = IntervalKinds)
  /\ [][ \A i \in Bodies :
           (lockedBy[i] # "timeout" /\ lockedBy'[i] = "timeout")
             => moving[i] ]_vars

\* The spawn timers of body i that are scheduled.
SpawnTimers(i) == { t \in timers : t.body = i /\ t.kind = "spawn" }

\* C35: a body has at most one spawn timer; one is scheduled only by an
\* accepted trigger and leaves only by running its callback, so a re-run of
\* the effect for the same resetCount does not cancel it; and that re-run,
\* the one of a re-render, schedules no spawn timer and leaves isLockedRef,
\* the damping, the history and the resolved value as they are.
C35_RespawnOncePerTrigger ==
  /\ [](\A i \in Bodies : Cardinality(SpawnTimers(i)) <= 1)
  /\ [][ \A i \in Bodies :
           /\ (SpawnTimers(i)' \ SpawnTimers(i) # {})
                => resetCount' = resetCount + 1
           /\ (SpawnTimers(i) \ SpawnTimers(i)' # {})
                => SpawnFire(i) ]_vars
  /\ [][ Render
           => \A i \in Bodies :
                /\ SpawnTimers(i)' \subseteq SpawnTimers(i)
                /\ isLocked'[i] = isLocked[i]
                /\ currentDamping'[i] = currentDamping[i]
                /\ positionHistory'[i] = positionHistory[i]
                /\ finalValue'[i] = finalValue[i] ]_vars

\* C36: a roll that is rolling stops rolling, whoever locked its bodies: while
\* isRolling the rolling timeout of the accepted trigger is scheduled,
\* RollingTimeout after the acceptance; and once isRolling is false and
\* rendered the button accepts the next trigger, which starts a roll.
C36_RollingEnds ==
  /\ isRolling ~> ~isRolling
  /\ [](isRolling
          => \E t \in timers :
               /\ t.kind = "rolling"
               /\ t.due = acceptTime + RollingTimeout
               /\ t.gen = resetCount)
  /\ []((~isRolling /\ ~renderPending /\ resetCount < MaxRolls)
          => ENABLED ButtonClick)
  /\ [][ ButtonClick
           => /\ lastTrigger' = "accepted"
              /\ isRolling'
              /\ resetCount' = resetCount + 1 ]_vars

\* A second roll has stopped rolling, one of its bodies locked by the forced
\* timeout.
C36_Witness ==
  /\ resetCount = MaxRolls
  /\ ~isRolling
  /\ lastTrigger = "accepted"
  /\ lockedBy[0] = "detector"
  /\ lockedBy[4] = "timeout"

C38_ResolverCopiesAgree ==
  /\ [](rotation[3] = rotation[0] => finalValue[3] = finalValue[0])
  /\ [](rotation[4] = rotation[2] => finalValue[4] = finalValue[2])
  /\ [][ \A i \in Bodies :
           getDiceValueFromRotationOfPoints(rotation'[i])
             = getDiceValueFromRotation(rotation'[i]) ]_vars

\* Both copies have resolved a rotation with two best faces, and its double.
C38_Witness ==
  /\ rotation[3] = rotation[0]
  /\ rotation[4] = Scale(rotation[3], 2)
  /\ BestFaces(rotation[3]) = { 2, 3 }
  /\ finalValue[3] = 2
  /\ finalValue[0] = 2
  /\ finalValue[4] = finalValue[2]

\* The kinds of timer a PhysicsDice starts.
BodyKinds == RefKinds \cup { "forced" }

\* The timers of kind k that body i has scheduled.
TimersOf(i, k) == { t \in timers : t.body = i /\ t.kind = k }

\* C39: a body never has two timers of one kind scheduled: spawn, damping
\* start, ramp interval, stability-check interval, forced timeout.
C39_OneTimerOfEachKind ==
  \A i \in Bodies : \A k \in BodyKinds : Cardinality(TimersOf(i, k)) <= 1

====
